---- MODULE Spec2Model ----
(***************************************************************************)
(* GoveeBT.py: the Govee BLE advertisement decoder (decode_govee_data) and *)
(* the scanner's detection callback (handle_device).                       *)
(*                                                                         *)
(* Python floats are modelled as exact fractions [n, d]: every float the   *)
(* decoder builds is one correctly rounded division of an integer below    *)
(* 2^24 by 1, 10, 100 or 10000, so two of them are equal as floats exactly *)
(* when the fractions are equal.                                           *)
(***************************************************************************)
EXTENDS Integers, Sequences, FiniteSets, TLC

VARIABLES
    name, mfg_id, data,     \* arguments of the decode_govee_data call under test
    result,                 \* what that call did (returned value, printed lines)
    pc,                     \* "call": arguments chosen; "ret": the call returned
    device, advertisement,  \* arguments of the last handle_device callback
    calls,                  \* decoder invocations of that callback, in order
    out,                    \* reading lines that callback printed
    errlog,                 \* "Decode error" lines that callback printed
    raised,                 \* whether an exception escaped that callback
    faults                  \* "Decode error" lines printed since the scan started

vars == <<name, mfg_id, data, result, pc,
          device, advertisement, calls, out, errlog, raised, faults>>

decodeVars == <<name, mfg_id, data, result, pc>>
callbackVars == <<device, advertisement, calls, out, errlog, raised, faults>>

---------------------------------------------------------------------------
(* Bounds of the model *)

MaxLen == 30
MaxEntries == 2
MaxFaults == 2

---------------------------------------------------------------------------
(* Literals of the source *)

xEC88 == 60552
x0001 == 1
x800000 == 8388608
x7FFFFF == 8388607
x7F == 127

---------------------------------------------------------------------------
(* Python integer and float operations used by the decoder *)

Shl(a, k) == a * (2 ^ k)

RECURSIVE BitOr(_, _)
BitOr(a, b) ==
    IF a = 0 THEN b
    ELSE IF b = 0 THEN a
    ELSE (IF a % 2 = 1 \/ b % 2 = 1 THEN 1 ELSE 0) + 2 * BitOr(a \div 2, b \div 2)

RECURSIVE BitAnd(_, _)
BitAnd(a, b) ==
    IF a = 0 \/ b = 0 THEN 0
    ELSE (a % 2) * (b % 2) + 2 * BitAnd(a \div 2, b \div 2)

FloorDiv(a, b) == a \div b
Mod(a, b) == a % b
TrueDiv(a, b) == [n |-> a, d |-> b]
Float(a) == [n |-> a, d |-> 1]
Neg(q) == [n |-> 0 - q.n, d |-> q.d]
Zero == [n |-> 0, d |-> 1]

\* data[k], zero-based; HasIndex is the bounds test whose failure is IndexError
At(bs, k) == bs[k + 1]
HasIndex(bs, k) == k < Len(bs)

startswith(s, prefix) ==
    Len(s) >= Len(prefix) /\ SubSeq(s, 1, Len(prefix)) = prefix

---------------------------------------------------------------------------
(* Values and outcomes of a call *)

None == [tag |-> "None"]
Tuple3(temps, hum, battery) ==
    [tag |-> "tuple", temps |-> temps, hum |-> hum, battery |-> battery]

Return(v) == [kind |-> "return", value |-> v, exc |-> "", printed |-> <<>>]
Raise(e) == [kind |-> "raise", value |-> None, exc |-> e, printed |-> <<>>]
\* no branch of the if/elif chain was taken: control leaves the try block
FallThrough == [kind |-> "fallthrough", value |-> None, exc |-> "", printed |-> <<>>]

---------------------------------------------------------------------------
(* decode_govee_data: the guards of the if/elif chain, in source order *)

Guard_H5074(nm, id, bs) ==
    id = xEC88 /\ Len(bs) = 7 /\ startswith(nm, "Govee_H5074_")

Guard_H5075(nm, id, bs) ==
    id = xEC88 /\ Len(bs) = 6 /\ startswith(nm, "GVH5075_")

\* faulty variant: only the first of the three prefixes is accepted
Guard_H5177_one_prefix(nm, id, bs) ==
    id = x0001 /\ Len(bs) = 6 /\ startswith(nm, "GVH5177_")

Guard_H5177(nm, id, bs) ==
    id = x0001 /\ Len(bs) = 6
    /\ \E p \in {"GVH5177_", "GVH5174_", "GVH5100_"} : startswith(nm, p)

Guard_H5179(nm, id, bs) ==
    id = xEC88 /\ Len(bs) = 9 /\ startswith(nm, "GVH5179")

\* faulty variant: the length is tested as a minimum
Guard_H5183_min_len(nm, id, bs) ==
    Len(bs) >= 14 /\ startswith(nm, "GVH5183")

\* faulty variant: one rule for the whole H518x family, the length tested as a minimum
Guard_H5183_family(nm, id, bs) ==
    Len(bs) >= 14 /\ startswith(nm, "GVH518")

Guard_H5183(nm, id, bs) ==
    Len(bs) = 14 /\ startswith(nm, "GVH5183")

Guard_H5182(nm, id, bs) ==
    Len(bs) = 17 /\ startswith(nm, "GVH5182")

Guard_H5055(nm, id, bs) ==
    Len(bs) = 20 /\ startswith(nm, "GVH5055")

---------------------------------------------------------------------------
(* decode_govee_data: the branch bodies *)

\* faulty variant: the two temperature bytes are read big-endian
Parse_H5074_big_endian(bs) ==
    IF ~HasIndex(bs, 5) THEN Raise("IndexError")
    ELSE LET i_temp == BitOr(Shl(At(bs, 1), 8), At(bs, 2))
             i_hum == BitOr(Shl(At(bs, 4), 8), At(bs, 3))
         IN Return(Tuple3(<<TrueDiv(i_temp, 100)>>, TrueDiv(i_hum, 100), At(bs, 5)))

Parse_H5074(bs) ==
    IF ~HasIndex(bs, 5) THEN Raise("IndexError")
    ELSE LET i_temp == BitOr(Shl(At(bs, 2), 8), At(bs, 1))
             i_hum == BitOr(Shl(At(bs, 4), 8), At(bs, 3))
             temp == TrueDiv(i_temp, 100)
             hum == TrueDiv(i_hum, 100)
             battery == At(bs, 5)
         IN Return(Tuple3(<<temp>>, hum, battery))

\* faulty variant: the humidity is taken before the sign flag is cleared
Parse_H5075_hum_unmasked(bs) ==
    IF ~HasIndex(bs, 4) THEN Raise("IndexError")
    ELSE LET raw == BitOr(BitOr(Shl(At(bs, 1), 16), Shl(At(bs, 2), 8)), At(bs, 3))
             negative == BitAnd(raw, x800000)
             i_temp == BitAnd(raw, x7FFFFF)
             mag == TrueDiv(FloorDiv(i_temp, 1000), 10)
             temp == IF negative # 0 THEN Neg(mag) ELSE mag
             hum == TrueDiv(Mod(raw, 1000), 10)
         IN Return(Tuple3(<<temp>>, hum, At(bs, 4)))

Parse_H5075(bs) ==
    IF ~HasIndex(bs, 4) THEN Raise("IndexError")
    ELSE LET raw == BitOr(BitOr(Shl(At(bs, 1), 16), Shl(At(bs, 2), 8)), At(bs, 3))
             negative == BitAnd(raw, x800000)
             i_temp == BitAnd(raw, x7FFFFF)
             mag == TrueDiv(FloorDiv(i_temp, 1000), 10)
             temp == IF negative # 0 THEN Neg(mag) ELSE mag
             hum == TrueDiv(Mod(i_temp, 1000), 10)
             battery == At(bs, 4)
         IN Return(Tuple3(<<temp>>, hum, battery))

Parse_H5177(bs) ==
    IF ~HasIndex(bs, 5) THEN Raise("IndexError")
    ELSE LET raw == BitOr(BitOr(Shl(At(bs, 2), 16), Shl(At(bs, 3), 8)), At(bs, 4))
             negative == BitAnd(raw, x800000)
             i_temp == BitAnd(raw, x7FFFFF)
             mag == TrueDiv(i_temp, 10000)
             temp == IF negative # 0 THEN Neg(mag) ELSE mag
             hum == TrueDiv(Mod(i_temp, 1000), 10)
             battery == At(bs, 5)
         IN Return(Tuple3(<<temp>>, hum, battery))

Parse_H5179(bs) ==
    IF ~HasIndex(bs, 8) THEN Raise("IndexError")
    ELSE LET i_temp == BitOr(Shl(At(bs, 5), 8), At(bs, 4))
             i_hum == BitOr(Shl(At(bs, 7), 8), At(bs, 6))
             temp == TrueDiv(i_temp, 100)
             hum == TrueDiv(i_hum, 100)
             battery == At(bs, 8)
         IN Return(Tuple3(<<temp>>, hum, battery))

\* faulty variant: the battery byte is returned without the 0x7F mask
Parse_H5183_unmasked(bs) ==
    IF ~HasIndex(bs, 11) THEN Raise("IndexError")
    ELSE LET i_temp == BitOr(Shl(At(bs, 8), 8), At(bs, 9))
             i_alarm == BitOr(Shl(At(bs, 10), 8), At(bs, 11))
         IN Return(Tuple3(<<TrueDiv(i_temp, 100), TrueDiv(i_alarm, 100)>>,
                          Zero, At(bs, 5)))

Parse_H5183(bs) ==
    IF ~HasIndex(bs, 11) THEN Raise("IndexError")
    ELSE LET i_temp == BitOr(Shl(At(bs, 8), 8), At(bs, 9))
             i_alarm == BitOr(Shl(At(bs, 10), 8), At(bs, 11))
             battery == BitAnd(At(bs, 5), x7F)
         IN Return(Tuple3(<<TrueDiv(i_temp, 100), TrueDiv(i_alarm, 100)>>,
                          Zero, battery))

\* faulty variant: the second probe is read one byte early
Parse_H5182_probe2_early(bs) ==
    IF ~HasIndex(bs, 16) THEN Raise("IndexError")
    ELSE LET temps == << TrueDiv(BitOr(Shl(At(bs, 8), 8), At(bs, 9)), 100),
                         TrueDiv(BitOr(Shl(At(bs, 10), 8), At(bs, 11)), 100),
                         TrueDiv(BitOr(Shl(At(bs, 12), 8), At(bs, 13)), 100),
                         TrueDiv(BitOr(Shl(At(bs, 15), 8), At(bs, 16)), 100) >>
         IN Return(Tuple3(temps, Zero, BitAnd(At(bs, 5), x7F)))

Parse_H5182(bs) ==
    IF ~HasIndex(bs, 16) THEN Raise("IndexError")
    ELSE LET temps == << TrueDiv(BitOr(Shl(At(bs, 8), 8), At(bs, 9)), 100),
                         TrueDiv(BitOr(Shl(At(bs, 10), 8), At(bs, 11)), 100),
                         TrueDiv(BitOr(Shl(At(bs, 13), 8), At(bs, 14)), 100),
                         TrueDiv(BitOr(Shl(At(bs, 15), 8), At(bs, 16)), 100) >>
             battery == BitAnd(At(bs, 5), x7F)
         IN Return(Tuple3(temps, Zero, battery))

\* The branch binds temps and battery and then returns the local temp, which
\* no statement of this branch has bound: the load raises UnboundLocalError.
Parse_H5055(bs) ==
    IF ~HasIndex(bs, 17) THEN Raise("IndexError")
    ELSE LET temps == << Float(BitOr(Shl(At(bs, 6), 8), At(bs, 5))),
                         Float(BitOr(Shl(At(bs, 10), 8), At(bs, 9))),
                         Float(BitOr(Shl(At(bs, 13), 8), At(bs, 12))),
                         Float(BitOr(Shl(At(bs, 17), 8), At(bs, 16))) >>
             battery == At(bs, 2)
             bound == [temps |-> TRUE, battery |-> TRUE, temp |-> FALSE]
         IN IF bound.temp THEN Return(Tuple3(temps, Zero, battery))
            ELSE Raise("UnboundLocalError")

---------------------------------------------------------------------------
(* decode_govee_data *)

\* the if/elif chain inside the try block
try_body(nm, id, bs) ==
    IF Guard_H5074(nm, id, bs) THEN Parse_H5074(bs)
    ELSE IF Guard_H5075(nm, id, bs) THEN Parse_H5075(bs)
    ELSE IF Guard_H5177(nm, id, bs) THEN Parse_H5177(bs)
    ELSE IF Guard_H5179(nm, id, bs) THEN Parse_H5179(bs)
    ELSE IF Guard_H5183(nm, id, bs) THEN Parse_H5183(bs)
    ELSE IF Guard_H5182(nm, id, bs) THEN Parse_H5182(bs)
    ELSE IF Guard_H5055(nm, id, bs) THEN Parse_H5055(bs)
    ELSE FallThrough

\* faulty variant: only IndexError is caught
except_IndexError(nm, o) ==
    IF o.kind = "raise" /\ o.exc = "IndexError"
    THEN [kind |-> "fallthrough", value |-> None, exc |-> "",
          printed |-> <<[name |-> nm, error |-> o.exc]>>]
    ELSE o

\* except Exception as e: print(...); then control reaches "return None"
except_Exception(nm, o) ==
    IF o.kind = "raise"
    THEN [kind |-> "fallthrough", value |-> None, exc |-> "",
          printed |-> <<[name |-> nm, error |-> o.exc]>>]
    ELSE o

decode_govee_data(nm, id, bs) ==
    LET o == except_Exception(nm, try_body(nm, id, bs))
    IN IF o.kind = "fallthrough"
       THEN [kind |-> "return", value |-> None, exc |-> "", printed |-> o.printed]
       ELSE o

---------------------------------------------------------------------------
(* handle_device *)

\* device.name or ""
name_or_empty(dev) == IF dev.name_is_none THEN "" ELSE dev.name

\* bytes(data): the same byte values, as an immutable byte string
bytes(bs) == bs

\* "if result:": None is false, a 3-tuple is true
Truthy(v) == v.tag = "tuple"

\* the line printed for a decoded entry (the timestamp is not modelled, and the
\* values are kept as decoded rather than as the text of their format specs)
Record(dev, adv, v) ==
    [address |-> dev.address, temps |-> v.temps, hum |-> v.hum,
     battery |-> v.battery, rssi |-> adv.rssi]

NoTrace == [calls |-> <<>>, out |-> <<>>, errlog |-> <<>>, raised |-> FALSE]

\* faulty variant: the loop stops after the first reading it prints
RECURSIVE for_items_break(_, _, _, _, _)
for_items_break(nm, dev, adv, items, acc) ==
    IF items = <<>> THEN acc
    ELSE LET item == Head(items)
             r == decode_govee_data(nm, item[1], bytes(item[2]))
             acc1 == [acc EXCEPT !.calls = Append(@, item),
                                 !.errlog = @ \o r.printed]
         IN IF r.kind = "raise" THEN [acc1 EXCEPT !.raised = TRUE]
            ELSE IF Truthy(r.value)
            THEN [acc1 EXCEPT !.out = Append(@, Record(dev, adv, r.value))]
            ELSE for_items_break(nm, dev, adv, Tail(items), acc1)

\* for mfg_id, data in mfg_data.items(): ... ; an exception leaving the decoder
\* would leave the loop and the callback
RECURSIVE for_items(_, _, _, _, _)
for_items(nm, dev, adv, items, acc) ==
    IF items = <<>> THEN acc
    ELSE LET item == Head(items)
             r == decode_govee_data(nm, item[1], bytes(item[2]))
             acc1 == [acc EXCEPT !.calls = Append(@, item),
                                 !.errlog = @ \o r.printed]
         IN IF r.kind = "raise" THEN [acc1 EXCEPT !.raised = TRUE]
            ELSE IF Truthy(r.value)
            THEN for_items(nm, dev, adv, Tail(items),
                           [acc1 EXCEPT !.out = Append(@, Record(dev, adv, r.value))])
            ELSE for_items(nm, dev, adv, Tail(items), acc1)

handle_device(dev, adv) ==
    LET nm == name_or_empty(dev)
        mfg_data == adv.manufacturer_data
    IN for_items(nm, dev, adv, mfg_data, NoTrace)

---------------------------------------------------------------------------
(* Inputs *)

Ids == {xEC88, x0001, 76}

Names == {"", "Govee_H5074_AB", "Govee_H5074", "GVH5075_1234", "gvh5075_1234",
          "GVH5177_A", "GVH5174_A", "GVH5100_A", "GVH5179", "GVH5183",
          "XGVH5183", "GVH5182X", "GVH5055", "GVH5"}

Bases == {0, 1, 90, 127, 128, 255}
Strides == {0, 1, 3, 51, 128, 255}

\* a payload of len bytes: base, base + stride, base + 2 * stride, ... (mod 256)
Gen(len, base, stride) == [i \in 1..len |-> (base + (i - 1) * stride) % 256]

H5074Example == <<0, 100, 0, 184, 11, 90, 0>>

Payloads ==
    {Gen(len, b, s) : len \in 0..MaxLen, b \in Bases, s \in Strides}
    \cup {H5074Example}

\* what the scanner hands to the callback
Devices ==
    {[name_is_none |-> FALSE, name |-> n, address |-> "A4:C1:38:00:00:01"] :
        n \in {"Govee_H5074_AB", "GVH5075_1234", "GVH5183", "GVH5182X", "GVH5055"}}
    \cup {[name_is_none |-> TRUE, name |-> "", address |-> "A4:C1:38:00:00:01"]}

CallbackPayloads ==
    {Gen(7, 90, 1), Gen(6, 128, 51), Gen(14, 255, 0), Gen(17, 90, 1),
     Gen(20, 0, 1), Gen(8, 90, 1)}

\* a dict's items: distinct keys, in insertion order
ItemLists ==
    {items \in UNION {[1..k -> Ids \X CallbackPayloads] : k \in 0..MaxEntries} :
        \A i, j \in DOMAIN items : i # j => items[i][1] # items[j][1]}

Advertisements ==
    {[manufacturer_data |-> items, rssi |-> 0 - 60] : items \in ItemLists}

NoDevice == [name_is_none |-> TRUE, name |-> "", address |-> ""]
NoAdvertisement == [manufacturer_data |-> <<>>, rssi |-> 0]

---------------------------------------------------------------------------
(* The decoder as a function under test *)

InitDecode ==
    /\ name \in Names
    /\ mfg_id \in Ids
    /\ data \in Payloads
    /\ result = Return(None)
    /\ pc = "call"
    /\ device = NoDevice
    /\ advertisement = NoAdvertisement
    /\ calls = <<>> /\ out = <<>> /\ errlog = <<>>
    /\ raised = FALSE
    /\ faults = 0

Call ==
    /\ pc = "call"
    /\ result' = decode_govee_data(name, mfg_id, data)
    /\ pc' = "ret"
    /\ UNCHANGED <<name, mfg_id, data>>
    /\ UNCHANGED callbackVars

NextDecode == Call

SpecDecode == InitDecode /\ [][NextDecode]_vars

---------------------------------------------------------------------------
(* The scanner delivering advertisements to the callback *)

Init ==
    /\ name = "" /\ mfg_id = 0 /\ data = <<>>
    /\ result = Return(None)
    /\ pc = "idle"
    /\ device = NoDevice
    /\ advertisement = NoAdvertisement
    /\ calls = <<>> /\ out = <<>> /\ errlog = <<>>
    /\ raised = FALSE
    /\ faults = 0

\* the scanner's detection callback runs on one advertisement
Detection ==
    /\ pc = "idle"
    /\ \E dev \in Devices, adv \in Advertisements :
        LET t == handle_device(dev, adv)
        IN /\ faults + Len(t.errlog) <= MaxFaults
           /\ device' = dev
           /\ advertisement' = adv
           /\ calls' = t.calls
           /\ out' = t.out
           /\ errlog' = t.errlog
           /\ raised' = t.raised
           /\ faults' = faults + Len(t.errlog)
    /\ pc' = "handled"
    /\ UNCHANGED <<name, mfg_id, data, result>>

\* the callback has returned: main() sleeps until the next advertisement
Resume ==
    /\ pc = "handled"
    /\ pc' = "idle"
    /\ device' = NoDevice
    /\ advertisement' = NoAdvertisement
    /\ calls' = <<>> /\ out' = <<>> /\ errlog' = <<>>
    /\ raised' = FALSE
    /\ UNCHANGED <<name, mfg_id, data, result, faults>>

Next == Detection \/ Resume

Spec == Init /\ [][Next]_vars

---------------------------------------------------------------------------
(* Properties *)

\* equality of two fractions, as Python's == on the floats
RatEq(p, q) == IF p.d = q.d THEN p.n = q.n ELSE p.n * q.d = q.n * p.d
Rat(a, b) == [n |-> a, d |-> b]

\* (b_hi << 8) | b_lo, stated arithmetically
U16(hi, lo) == hi * 256 + lo

Returned == pc = "ret" /\ result.kind = "return"
IsReading == Returned /\ result.value.tag = "tuple"
IsNoMatch == Returned /\ result.value = None

\* the guard table of the decoder's contract: manufacturer id (where the rule
\* has one), exact length, accepted name prefixes
RuleTable ==
    << [any_id |-> FALSE, id |-> 60552, len |-> 7,  prefixes |-> {"Govee_H5074_"}],
       [any_id |-> FALSE, id |-> 60552, len |-> 6,  prefixes |-> {"GVH5075_"}],
       [any_id |-> FALSE, id |-> 1,     len |-> 6,
        prefixes |-> {"GVH5177_", "GVH5174_", "GVH5100_"}],
       [any_id |-> FALSE, id |-> 60552, len |-> 9,  prefixes |-> {"GVH5179"}],
       [any_id |-> TRUE,  id |-> 0,     len |-> 14, prefixes |-> {"GVH5183"}],
       [any_id |-> TRUE,  id |-> 0,     len |-> 17, prefixes |-> {"GVH5182"}],
       [any_id |-> TRUE,  id |-> 0,     len |-> 20, prefixes |-> {"GVH5055"}] >>

HasPrefix(s, p) == \E k \in 0..Len(s) : SubSeq(s, 1, k) = p

RuleApplies(r, nm, id, bs) ==
    /\ r.any_id \/ id = r.id
    /\ Len(bs) = r.len
    /\ \E p \in r.prefixes : HasPrefix(nm, p)

NoRuleApplies(nm, id, bs) ==
    \A i \in DOMAIN RuleTable : ~RuleApplies(RuleTable[i], nm, id, bs)

\* C1: a 20-byte payload under a name starting with "GVH5055" (any
\* manufacturer id) decodes to a reading whose temperatures are the four raw
\* little-endian 16-bit values (b6<<8)|b5, (b10<<8)|b9, (b13<<8)|b12,
\* (b17<<8)|b16, with humidity 0.0 and battery b2.
C1_H5055Reading ==
    (pc = "ret" /\ Len(data) = 20 /\ HasPrefix(name, "GVH5055")) =>
        /\ IsReading
        /\ Len(result.value.temps) = 4
        /\ RatEq(result.value.temps[1], Rat(U16(At(data, 6), At(data, 5)), 1))
        /\ RatEq(result.value.temps[2], Rat(U16(At(data, 10), At(data, 9)), 1))
        /\ RatEq(result.value.temps[3], Rat(U16(At(data, 13), At(data, 12)), 1))
        /\ RatEq(result.value.temps[4], Rat(U16(At(data, 17), At(data, 16)), 1))
        /\ RatEq(result.value.hum, Rat(0, 1))
        /\ result.value.battery = At(data, 2)

\* C2: when no rule's guard (manufacturer id where the rule has one, exact
\* length, name prefix) is satisfied the decoder returns None and reports
\* nothing; in particular a name starting with "GVH5183" with a payload of any
\* length other than 14 returns None.
C2_NoMatch ==
    /\ (pc = "ret" /\ NoRuleApplies(name, mfg_id, data)) =>
           (IsNoMatch /\ result.printed = <<>>)
    /\ (pc = "ret" /\ HasPrefix(name, "GVH5183") /\ Len(data) # 14) => IsNoMatch

C2_Witness ==
    /\ pc = "ret" /\ name = "GVH5183" /\ Len(data) = 8
    /\ NoRuleApplies(name, mfg_id, data)
    /\ IsNoMatch

\* C3 as stated: every reading's battery is an integer in 0..100.
C3_BatteryPercent ==
    IsReading => result.value.battery \in 0..100

\* C3 as amended: every reading's battery is the raw battery byte, an integer
\* in 0..255, and in 0..127 under the H5183 and H5182 rules, which mask it.
C3_BatteryByte ==
    IsReading =>
        /\ result.value.battery \in 0..255
        /\ Len(data) \in {14, 17} => result.value.battery \in 0..127

C3_Witness ==
    IsReading /\ result.value.battery = 255 /\ Len(data) = 6

\* C8: for id 0xEC88, 7 bytes and a name starting with "Govee_H5074_" the
\* reading is [((b2<<8)|b1)/100], humidity ((b4<<8)|b3)/100, battery b5,
\* whatever b0 and b6 are; the contract's example decodes to [1.00], 30.0, 90.
C8_H5074 ==
    (pc = "ret" /\ mfg_id = 60552 /\ Len(data) = 7
        /\ HasPrefix(name, "Govee_H5074_")) =>
        /\ IsReading
        /\ Len(result.value.temps) = 1
        /\ RatEq(result.value.temps[1], Rat(U16(At(data, 2), At(data, 1)), 100))
        /\ RatEq(result.value.hum, Rat(U16(At(data, 4), At(data, 3)), 100))
        /\ result.value.battery = At(data, 5)
        /\ \A x \in {0, 255} :
              decode_govee_data(name, mfg_id,
                                [data EXCEPT ![1] = x, ![7] = 255 - x]).value
                  = result.value
        /\ data = <<0, 100, 0, 184, 11, 90, 0>> =>
              /\ RatEq(result.value.temps[1], Rat(1, 1))
              /\ RatEq(result.value.hum, Rat(30, 1))
              /\ result.value.battery = 90

C8_Witness ==
    /\ IsReading /\ name = "Govee_H5074_AB" /\ mfg_id = 60552
    /\ data = <<0, 100, 0, 184, 11, 90, 0>>
    /\ result.value.battery = 90

\* C10: a 17-byte payload under a name starting with "GVH5182" (any
\* manufacturer id) decodes to exactly four temperatures, in the order
\* ((b8<<8)|b9)/100, ((b10<<8)|b11)/100, ((b13<<8)|b14)/100,
\* ((b15<<8)|b16)/100, with humidity 0.0 and battery b5 & 0x7F.
C10_H5182 ==
    (pc = "ret" /\ Len(data) = 17 /\ HasPrefix(name, "GVH5182")) =>
        /\ IsReading
        /\ Len(result.value.temps) = 4
        /\ RatEq(result.value.temps[1], Rat(U16(At(data, 8), At(data, 9)), 100))
        /\ RatEq(result.value.temps[2], Rat(U16(At(data, 10), At(data, 11)), 100))
        /\ RatEq(result.value.temps[3], Rat(U16(At(data, 13), At(data, 14)), 100))
        /\ RatEq(result.value.temps[4], Rat(U16(At(data, 15), At(data, 16)), 100))
        /\ RatEq(result.value.hum, Rat(0, 1))
        /\ result.value.battery = At(data, 5) % 128

C10_Witness ==
    /\ IsReading /\ name = "GVH5182X" /\ Len(data) = 17
    /\ At(data, 5) >= 128
    /\ result.value.temps[3] # result.value.temps[1]

---------------------------------------------------------------------------
(* The rules as a list, to evaluate them in another order *)

Rules == 1..7
SourceOrder == <<1, 2, 3, 4, 5, 6, 7>>
RuleOrders == Permutations(Rules)

\* each rule's guard on the arguments, in source order
GuardValues(nm, id, bs) ==
    << Guard_H5074(nm, id, bs), Guard_H5075(nm, id, bs), Guard_H5177(nm, id, bs),
       Guard_H5179(nm, id, bs), Guard_H5183(nm, id, bs), Guard_H5182(nm, id, bs),
       Guard_H5055(nm, id, bs) >>

\* what each rule's branch body does on the payload, in source order
ParseOutcomes(bs) ==
    << Parse_H5074(bs), Parse_H5075(bs), Parse_H5177(bs), Parse_H5179(bs),
       Parse_H5183(bs), Parse_H5182(bs), Parse_H5055(bs) >>

\* the first rule of order, from position i on, whose guard holds; 0 when none
RECURSIVE FirstMatch(_, _, _)
FirstMatch(order, holds, i) ==
    IF i > Len(order) THEN 0
    ELSE IF holds[order[i]] THEN order[i]
    ELSE FirstMatch(order, holds, i + 1)

\* the decoder with its rules tried in the given order
DecodeInOrder(order, holds, parsed, nm) ==
    LET r == FirstMatch(order, holds, 1)
        o == except_Exception(nm, IF r = 0 THEN FallThrough ELSE parsed[r])
    IN IF o.kind = "fallthrough"
       THEN [kind |-> "return", value |-> None, exc |-> "", printed |-> o.printed]
       ELSE o

\* C6: at most one of the seven guards is satisfied by any (name, id, length),
\* so the decoder's result is the same whatever the order of the rules.
C6_GuardsExclusive ==
    pc = "ret" =>
        LET holds == GuardValues(name, mfg_id, data)
            parsed == ParseOutcomes(data)
            matching == {r \in Rules : holds[r]}
        IN /\ Cardinality(matching) <= 1
           /\ result = DecodeInOrder(SourceOrder, holds, parsed, name)
           /\ matching = {} => (IsNoMatch /\ result.printed = <<>>)
           /\ matching # {} =>
                  \A order \in RuleOrders :
                      DecodeInOrder(order, holds, parsed, name) = result

C6_Witness ==
    /\ pc = "ret"
    /\ GuardValues(name, mfg_id, data)[5]
    /\ IsReading
    /\ DecodeInOrder(<<7, 6, 5, 4, 3, 2, 1>>, GuardValues(name, mfg_id, data),
                     ParseOutcomes(data), name) = result

\* C7: for id 0xEC88, 6 bytes and a name starting with "GVH5075_", the payload
\* with bit 23 of b1<<16|b2<<8|b3 set and the same payload with it cleared
\* decode to temperatures of equal magnitude ((value & 0x7FFFFF) div 1000)/10
\* and opposite sign, the same humidity ((value & 0x7FFFFF) mod 1000)/10 and
\* the same battery b4.
C7_H5075Sign ==
    (pc = "ret" /\ mfg_id = 60552 /\ Len(data) = 6
        /\ HasPrefix(name, "GVH5075_")) =>
        LET low == (At(data, 1) % 128) * 65536 + At(data, 2) * 256 + At(data, 3)
            set == [data EXCEPT ![2] = (At(data, 1) % 128) + 128]
            clr == [data EXCEPT ![2] = At(data, 1) % 128]
            rs == decode_govee_data(name, mfg_id, set)
            rc == decode_govee_data(name, mfg_id, clr)
        IN /\ result = IF At(data, 1) >= 128 THEN rs ELSE rc
           /\ rs.value.tag = "tuple" /\ rc.value.tag = "tuple"
           /\ Len(rs.value.temps) = 1 /\ Len(rc.value.temps) = 1
           /\ RatEq(rc.value.temps[1], Rat(low \div 1000, 10))
           /\ RatEq(rs.value.temps[1], Rat(0 - (low \div 1000), 10))
           /\ RatEq(rs.value.hum, Rat(low % 1000, 10))
           /\ RatEq(rc.value.hum, Rat(low % 1000, 10))
           /\ rs.value.battery = At(data, 4)
           /\ rc.value.battery = At(data, 4)

C7_Witness ==
    /\ IsReading /\ mfg_id = 60552 /\ Len(data) = 6 /\ name = "GVH5075_1234"
    /\ At(data, 1) >= 128
    /\ result.value.temps[1].n < 0
    /\ result.value.hum.n > 0

\* C9: for id 0x0001 and 6 bytes, names starting with "GVH5177_", "GVH5174_"
\* and "GVH5100_" decode the same bytes to the same reading: temperature
\* (value & 0x7FFFFF)/10000, negated when bit 23 of b2<<16|b3<<8|b4 is set,
\* humidity ((value & 0x7FFFFF) mod 1000)/10, battery b5.
C9_H5177Family ==
    (pc = "ret" /\ mfg_id = 1 /\ Len(data) = 6
        /\ \E p \in {"GVH5177_", "GVH5174_", "GVH5100_"} : HasPrefix(name, p)) =>
        LET low == (At(data, 2) % 128) * 65536 + At(data, 3) * 256 + At(data, 4)
            sign == IF At(data, 2) >= 128 THEN 0 - 1 ELSE 1
            rest == SubSeq(name, 9, Len(name))
        IN /\ IsReading
           /\ Len(result.value.temps) = 1
           /\ RatEq(result.value.temps[1], Rat(sign * low, 10000))
           /\ RatEq(result.value.hum, Rat(low % 1000, 10))
           /\ result.value.battery = At(data, 5)
           /\ \A p \in {"GVH5177_", "GVH5174_", "GVH5100_"} :
                  decode_govee_data(p \o rest, mfg_id, data) = result

C9_Witness ==
    /\ IsReading /\ name = "GVH5100_A" /\ mfg_id = 1 /\ Len(data) = 6
    /\ result.value.temps[1].n < 0
    /\ decode_govee_data("GVH5174_A", mfg_id, data) = result

---------------------------------------------------------------------------
(* Properties of the callback *)

Items == advertisement.manufacturer_data
DevName == IF device.name_is_none THEN "" ELSE device.name
Decoded(i) == decode_govee_data(DevName, Items[i][1], Items[i][2])
Faulting(i) == try_body(DevName, Items[i][1], Items[i][2]).kind = "raise"
Successes == {i \in DOMAIN Items : Decoded(i).value # None}

\* the readings of the entries that decoded, in iteration order
RECURSIVE Readings(_)
Readings(i) ==
    IF i > Len(Items) THEN <<>>
    ELSE IF Decoded(i).value # None
    THEN <<Decoded(i).value>> \o Readings(i + 1)
    ELSE Readings(i + 1)

\* C4: handle_device invokes the decoder exactly once on every
\* manufacturer-data entry and prints exactly one record for each entry that
\* decodes and none for an entry that does not, so the number of records is
\* the number of decoded entries, also when several entries decode.
C4_OneRecordPerDecode ==
    pc = "handled" =>
        /\ calls = Items
        /\ Len(out) = Cardinality(Successes)
        /\ Len(out) = Len(Readings(1))
        /\ \A j \in DOMAIN out :
              /\ out[j].temps = Readings(1)[j].temps
              /\ out[j].hum = Readings(1)[j].hum
              /\ out[j].battery = Readings(1)[j].battery

C4_Witness ==
    /\ pc = "handled"
    /\ Len(Items) = 2
    /\ Len(out) = 2
    /\ calls = Items

\* C5: an exception raised while parsing a guard-matched payload is caught and
\* reported with the device name and never leaves the decoder or the callback:
\* the decoder returns None for that payload, and the callback decodes every
\* other entry of the advertisement and handles the advertisements that follow.
C5_FaultsContained ==
    pc = "handled" =>
        /\ ~raised
        /\ calls = Items
        /\ \A i \in DOMAIN Items :
              Faulting(i) =>
                  /\ Decoded(i).kind = "return"
                  /\ Decoded(i).value = None
                  /\ Len(Decoded(i).printed) = 1
                  /\ Decoded(i).printed[1].name = DevName
                  /\ \E k \in DOMAIN errlog : errlog[k] = Decoded(i).printed[1]
        /\ Len(errlog) = Cardinality({i \in DOMAIN Items : Faulting(i)})
        /\ Len(out) = Cardinality(Successes)
        /\ faults >= Len(errlog)

C5_Witness ==
    /\ pc = "handled"
    /\ Len(Items) = 2
    /\ Faulting(1) /\ ~Faulting(2)
    /\ Len(calls) = 2
    /\ Len(errlog) = 1
    /\ faults = 2

====
